---- MODULE Spec2Model ----
(***************************************************************************)
(* typeix: the hierarchical dependency-injection container (Injector) and  *)
(* the per-request orchestrator (Request).                                 *)
(*                                                                         *)
(* Spec     : the Injector tree (createAndResolve, createAndResolveChild,  *)
(*            get, set, destroy).                                          *)
(* SpecReq  : one Request orchestrator driving process() to its end, with  *)
(*            the router, the request stream and the response sink as      *)
(*            environment.                                                 *)
(* SpecReqFair : SpecReq with the fairness of the event loop.              *)
(* SpecRender : Request.render() called directly with any kind of payload. *)
(***************************************************************************)
EXTENDS Integers, Sequences, FiniteSets, TLC

\* ------------------------------------------------------------------------
\* Bounds
\* ------------------------------------------------------------------------

\* Number of Injector objects ever constructed in one behaviour.
MaxInjectors == 3

\* Number of body chunks the transport delivers at most.
MaxChunks == 2

\* Number of direct render calls made on one orchestrator.
MaxRenders == 2

\* ------------------------------------------------------------------------
\* Values, keys, provider descriptors
\* ------------------------------------------------------------------------

NoParent == 0

InjectorKey == "Injector"

Tokens == {"k1", "k2"}

Classes == {"Svc", "Ctl", "Sub"}

Keys == Tokens \cup Classes \cup {InjectorKey}

\* JavaScript undefined.
Undefined == [t |-> "undef", a |-> "", inj |-> 0, n |-> 0]

\* A literal value.
Val(v) == [t |-> "val", a |-> v, inj |-> 0, n |-> 0]

\* The n-th object constructed by container inj, of class cls.
Inst(cls, inj, n) == [t |-> "inst", a |-> cls, inj |-> inj, n |-> n]

\* A reference to the Injector object c.
InjRef(c) == [t |-> "inj", a |-> InjectorKey, inj |-> c, n |-> 0]

\* new Map(): a function from the keys that are bound
EmptyMap == [k \in {} |-> Undefined]

\* {provide, useValue}
ValueProvider(k, v) == [provide |-> k, useClass |-> "", useValue |-> Val(v)]

\* A class given where a provider is expected (a bare Function).
Fn(Class) == [provide |-> Class, useClass |-> "", useValue |-> Undefined]

\* Metadata.verifyProvider(value): a Function becomes {provide: Class, useClass: Class},
\* a descriptor stays as it is
verifyProvider(value) ==
  IF value.useClass = "" /\ value.useValue = Undefined
  THEN [provide |-> value.provide, useClass |-> value.provide, useValue |-> Undefined]
  ELSE value

\* Metadata.verifyProviders(providers)
verifyProviders(providers) == [i \in 1..Len(providers) |-> verifyProvider(providers[i])]

\* isPresent(x): x is neither null nor undefined
isPresent(x) == x # Undefined

\* ------------------------------------------------------------------------
\* The annotated classes of the model (what the decorators declare)
\* ------------------------------------------------------------------------

\* @Injectable() class Svc { constructor(@Inject("k1") k1) {} afterConstruct() {} }
\* @Injectable({providers: [Svc]}) class Ctl { constructor(@Inject(Svc) svc) {}
\*     @Inject(Injector) injector; afterConstruct() {} }
\* @Injectable() class Sub extends Svc { constructor() {}
\*     @Inject("k1", true) a; @Inject("k2") b; @Inject(Injector) injector; }
\*     (Sub inherits afterConstruct from Svc)

\* Metadata.getConstructorProviders(key)
getConstructorProviders(key) ==
  IF key = "Ctl" THEN <<verifyProvider(Fn("Svc"))>> ELSE <<>>

\* Metadata.getConstructorInjectKeys(key)
getConstructorInjectKeys(key) ==
  CASE key = "Svc" -> <<"k1">>
    [] key = "Ctl" -> <<"Svc">>
    [] OTHER -> <<>>

\* Metadata.getConstructorPrototypeKeys(Class)
getConstructorPrototypeKeys(Class) ==
  CASE Class = "Ctl" -> << [key |-> "injector", value |-> InjectorKey, isMutable |-> FALSE] >>
    [] Class = "Sub" -> << [key |-> "a", value |-> "k1", isMutable |-> TRUE],
                           [key |-> "b", value |-> "k2", isMutable |-> FALSE],
                           [key |-> "injector", value |-> InjectorKey, isMutable |-> FALSE] >>
    [] OTHER -> <<>>

\* Class.prototype.hasOwnProperty("afterConstruct")
hasOwnAfterConstruct(Class) == Class \in {"Svc", "Ctl"}

\* isFunction(instance.afterConstruct): own or inherited
hasAfterConstruct(Class) == Class \in {"Svc", "Ctl", "Sub"}

\* Metadata.mergeProviders(declared, overrides): the overrides, then the declared
\* providers no override replaces
mergeProviders(declared, overrides) ==
  overrides \o SelectSeq(declared,
                 LAMBDA d : ~(\E i \in 1..Len(overrides) : overrides[i].provide = d.provide))

\* ------------------------------------------------------------------------
\* State
\* ------------------------------------------------------------------------

VARIABLES
  nextId,      \* Injector: the next object identity (the _uid of the next new Injector)
  parent,      \* Injector.parent of every object, NoParent for undefined
  children,    \* Injector._children
  provs,       \* Injector._providers
  destroyed,   \* history: the objects on which destroy() has run
  built,       \* history: the objects a static createAndResolve* returned
  last         \* history: the last operation, its result and the state before it

injVars == <<nextId, parent, children, provs, destroyed, built, last>>

VARIABLES
  isForwarded,  \* Request.isForwarded
  pc,           \* where the promise chain of process() stands
  route,        \* the method of the ResolvedRoute carried by the chain
  error,        \* the rejection reason carried by the chain
  finishL,      \* response.once("finish", ...) is attached
  closeL,       \* response.once("close", ...) is attached
  dataL,        \* request.on("data", ...) is attached
  endL,         \* request.on("end", ...) is attached
  statusCode,   \* Request.statusCode
  data,         \* Request.data
  response,     \* the calls the response sink accepted, in order
  channel,      \* the listeners of Request.eventEmitter are attached
  env,          \* the transport: chunks sent, end / finish / close emitted
  hist          \* history: counts of destroy(), emit("destroy"), render(), logs, ...

reqVars == <<isForwarded, pc, route, error, finishL, closeL, dataL, endL, statusCode,
             data, response, channel, env, hist>>

vars == <<injVars, reqVars>>

Ids == 1..MaxInjectors

Allocated == 1..(nextId - 1)

\* The Injector objects as one record, for the operators below.
Heap == [parent |-> parent, children |-> children, provs |-> provs, destroyed |-> destroyed]

NoErr == [key |-> "", onClass |-> "", injector |-> 0]

\* ------------------------------------------------------------------------
\* Array helpers
\* ------------------------------------------------------------------------

\* Array.prototype.indexOf: 0-based, -1 when absent
indexOf(arr, x) ==
  IF \E i \in 1..Len(arr) : arr[i] = x
  THEN (CHOOSE i \in 1..Len(arr) : arr[i] = x /\ \A j \in 1..(i - 1) : arr[j] # x) - 1
  ELSE -1

\* Array.prototype.splice(start, 1): a negative start counts from the end
splice1(arr, start) ==
  LET len == Len(arr)
      from == IF start < 0 THEN (IF len + start < 0 THEN 0 ELSE len + start)
              ELSE (IF start > len THEN len ELSE start)
  IN [i \in 1..(IF from < len THEN len - 1 ELSE len) |->
        IF i <= from THEN arr[i] ELSE arr[i + 1]]

\* ------------------------------------------------------------------------
\* Injector: has, get, set, setChild, removeChild, destroy
\* ------------------------------------------------------------------------

\* Injector.has
has(pv, c, key) == key \in DOMAIN pv[c]

\* Injector.get: the value, or the Error it throws
RECURSIVE get(_, _, _, _, _)

\* Mutant of get: the parent chain is asked first, the local map last.
getParentFirst(pv, par, c, provider, Class) ==
  IF par[c] # NoParent /\ get(pv, par, par[c], provider, Class).ok
  THEN get(pv, par, par[c], provider, Class)
  ELSE IF has(pv, c, provider)
  THEN [ok |-> TRUE, value |-> pv[c][provider], err |-> NoErr]
  ELSE [ok |-> FALSE, value |-> Undefined,
        err |-> [key |-> provider, onClass |-> Class, injector |-> c]]

\* Mutant of get: the error of a failed lookup carries the identifier of the container
\* the lookup started on.
getReportsCaller(pv, par, c, provider, Class) ==
  IF ~has(pv, c, provider) /\ par[c] # NoParent
  THEN LET r == get(pv, par, par[c], provider, Class)
       IN IF r.ok THEN r ELSE [r EXCEPT !.err.injector = c]
  ELSE IF has(pv, c, provider)
  THEN [ok |-> TRUE, value |-> pv[c][provider], err |-> NoErr]
  ELSE [ok |-> FALSE, value |-> Undefined,
        err |-> [key |-> provider, onClass |-> Class, injector |-> c]]

get(pv, par, c, provider, Class) ==
  IF ~has(pv, c, provider) /\ par[c] # NoParent
  THEN get(pv, par, par[c], provider, Class)
  ELSE IF has(pv, c, provider)
  THEN [ok |-> TRUE, value |-> pv[c][provider], err |-> NoErr]
  ELSE [ok |-> FALSE, value |-> Undefined,
        err |-> [key |-> provider, onClass |-> Class, injector |-> c]]

\* Injector.set
set(pv, c, key, value) ==
  [pv EXCEPT ![c] = [k \in DOMAIN @ \cup {key} |-> IF k = key THEN value ELSE @[k]]]

\* Injector.setChild
setChild(arr, injector) == Append(arr, injector)

\* Injector.removeChild
removeChild(arr, injector) == splice1(arr, indexOf(arr, injector))

\* Injector.destroy. destroyEach is this._children.forEach(injector => injector.destroy()):
\* forEach reads the length once and the element at index k when it gets there.
RECURSIVE destroy(_, _)
RECURSIVE destroyEach(_, _, _, _)
destroyEach(h, c, k, len) ==
  IF k >= len THEN h
  ELSE IF k < Len(h.children[c])
  THEN destroyEach(destroy(h, h.children[c][k + 1]), c, k + 1, len)
  ELSE destroyEach(h, c, k + 1, len)

\* Mutant of destroy: the parent reference is kept, so a second destroy() asks the
\* former parent again to remove this container.
destroyKeepsParent(h, c) ==
  LET h1 == IF h.parent[c] # NoParent
            THEN [h EXCEPT !.children[h.parent[c]] = removeChild(@, c)]
            ELSE h
      h2 == destroyEach(h1, c, 0, Len(h1.children[c]))
  IN [h2 EXCEPT !.children[c] = <<>>,
                !.provs[c] = EmptyMap,
                !.destroyed = @ \cup {c}]

destroy(h, c) ==
  LET h1 == IF h.parent[c] # NoParent
            THEN [h EXCEPT !.children[h.parent[c]] = removeChild(@, c)]
            ELSE h
      h2 == destroyEach(h1, c, 0, Len(h1.children[c]))
  IN [h2 EXCEPT !.children[c] = <<>>,
                !.parent[c] = NoParent,
                !.provs[c] = EmptyMap,
                !.destroyed = @ \cup {c}]

\* ------------------------------------------------------------------------
\* Injector.createAndResolve (the instance method)
\* ------------------------------------------------------------------------

\* What one call did, in order: "arg" (a constructor key resolved), "construct",
\* "prop" (Reflect.defineProperty), "bind" (this.set), "hook" (afterConstruct).
Event(ev, cls, inst, key, val, w) ==
  [ev |-> ev, cls |-> cls, inst |-> inst, key |-> key, val |-> val, w |-> w]

\* keys.map(arg => this.get(arg, provider)): stops at the first get that throws
RECURSIVE getArgs(_, _, _, _, _, _)
getArgs(st, par, c, keys, k, provider) ==
  IF k > Len(keys) THEN st
  ELSE LET r == get(st.provs, par, c, keys[k], provider.provide)
       IN IF ~r.ok THEN [st EXCEPT !.err = r.err]
          ELSE getArgs([st EXCEPT !.log = Append(@, Event("arg", provider.provide, Undefined,
                                                           keys[k], r.value, FALSE))],
                       par, c, keys, k + 1, provider)

\* protoKeys.forEach(item => defineProperty(instance, item.key, {value: this.get(item.value), ...}))
RECURSIVE defineProperties(_, _, _, _, _, _)
defineProperties(st, par, c, instance, protoKeys, k) ==
  IF k > Len(protoKeys) THEN st
  ELSE LET r == get(st.provs, par, c, protoKeys[k].value, "")
       IN IF ~r.ok THEN [st EXCEPT !.err = r.err]
          ELSE defineProperties(
                 [st EXCEPT !.log = Append(@, Event("prop", instance.a, instance,
                                                    protoKeys[k].value, r.value,
                                                    protoKeys[k].isMutable))],
                 par, c, instance, protoKeys, k + 1)

\* Mutant of bindAndNotify: afterConstruct runs whenever the instance has one, own or
\* inherited.
bindAndNotifyInherited(st, c, provider, instance) ==
  LET s1 == [st EXCEPT !.provs = set(@, c, provider.provide, instance),
                       !.log = Append(@, Event("bind", provider.useClass, instance,
                                               provider.provide, instance, FALSE))]
      s2 == IF hasAfterConstruct(provider.useClass)
            THEN [s1 EXCEPT !.log = Append(@, Event("hook", provider.useClass, instance,
                                                    "", Undefined, FALSE))]
            ELSE s1
  IN [s2 EXCEPT !.provs = set(@, c, InjectorKey, InjRef(c))]

\* lines 141-145: bind the instance, run its own afterConstruct, bind the injector
bindAndNotify(st, c, provider, instance) ==
  LET s1 == [st EXCEPT !.provs = set(@, c, provider.provide, instance),
                       !.log = Append(@, Event("bind", provider.useClass, instance,
                                               provider.provide, instance, FALSE))]
      s2 == IF hasOwnAfterConstruct(provider.useClass) /\ hasAfterConstruct(provider.useClass)
            THEN [s1 EXCEPT !.log = Append(@, Event("hook", provider.useClass, instance,
                                                    "", Undefined, FALSE))]
            ELSE s1
  IN [s2 EXCEPT !.provs = set(@, c, InjectorKey, InjRef(c))]

RECURSIVE createAndResolve(_, _, _, _, _)
RECURSIVE resolveEach(_, _, _, _, _)
\* providers.forEach(item => this.createAndResolve(item, getConstructorProviders(item.provide)))
resolveEach(st, par, c, providers, k) ==
  IF k > Len(providers) \/ st.err # NoErr THEN st
  ELSE resolveEach(createAndResolve(st, par, c, providers[k],
                                    getConstructorProviders(providers[k].provide)),
                   par, c, providers, k + 1)

createAndResolve(st, par, c, provider, providers) ==
  LET merged == mergeProviders(getConstructorProviders(provider.provide), providers)
      s1 == resolveEach(st, par, c, merged, 1)
  IN IF s1.err # NoErr THEN s1
     ELSE IF isPresent(provider.useValue)
     THEN [s1 EXCEPT !.provs = set(@, c, provider.provide, provider.useValue),
                     !.log = Append(@, Event("bind", "", Undefined, provider.provide,
                                             provider.useValue, FALSE))]
     ELSE LET s2 == getArgs(s1, par, c, getConstructorInjectKeys(provider.provide), 1, provider)
          IN IF s2.err # NoErr THEN s2
             ELSE LET instance == Inst(provider.useClass, c, s2.n + 1)
                      s3 == [s2 EXCEPT !.n = @ + 1,
                                       !.log = Append(@, Event("construct", provider.useClass,
                                                               instance, "", Undefined, FALSE))]
                      s4 == defineProperties(s3, par, c, instance,
                                             getConstructorPrototypeKeys(provider.useClass), 1)
                  IN IF s4.err # NoErr THEN s4
                     ELSE bindAndNotify(s4, c, provider, instance)

\* ------------------------------------------------------------------------
\* Injector operations
\* ------------------------------------------------------------------------

\* The provider lists callers pass.
ProviderLists ==
  { <<ValueProvider("k1", "v1")>>,
    <<ValueProvider("k2", "v2")>> }

\* The values callers bind with set.
SetValues == {"v3"}

\* The keys callers bind with set.
SetKeys == {"k1"}

\* The keys callers look up with get.
GetKeys == Tokens

\* The classes callers resolve.
Targets == {"Ctl", "Sub"}

LastOp(op, c, p, cls, key, ok, err, value, log) ==
  [op |-> op, c |-> c, p |-> p, cls |-> cls, key |-> key, ok |-> ok, err |-> err,
   value |-> value, log |-> log, pre |-> Heap]

InitInj ==
  /\ nextId = 1
  /\ parent = [i \in Ids |-> NoParent]
  /\ children = [i \in Ids |-> <<>>]
  /\ provs = [i \in Ids |-> EmptyMap]
  /\ destroyed = {}
  /\ built = {}
  /\ last = [op |-> "init", c |-> 0, p |-> NoParent, cls |-> "", key |-> "", ok |-> TRUE,
             err |-> NoErr, value |-> Undefined, log |-> <<>>,
             pre |-> [parent |-> [i \in Ids |-> NoParent], children |-> [i \in Ids |-> <<>>],
                      provs |-> [i \in Ids |-> EmptyMap], destroyed |-> {}]]

\* new Injector(p) followed by child.createAndResolve(verifyProvider(Class), verifyProviders(providers))
construct(p, Class, providers) ==
  createAndResolve([provs |-> provs, log |-> <<>>, err |-> NoErr, n |-> 0],
                   [parent EXCEPT ![nextId] = p], nextId,
                   verifyProvider(Fn(Class)), verifyProviders(providers))

\* static Injector.createAndResolve(Class, providers)
CreateAndResolve(Class, providers) ==
  /\ nextId <= MaxInjectors
  /\ LET r == construct(NoParent, Class, providers)
     IN /\ provs' = r.provs
        /\ built' = IF r.err = NoErr THEN built \cup {nextId} ELSE built
        /\ last' = LastOp("createAndResolve", nextId, NoParent, Class, "", r.err = NoErr,
                          r.err, Undefined, r.log)
  /\ nextId' = nextId + 1
  /\ UNCHANGED <<parent, children, destroyed, reqVars>>

\* Mutant of CreateAndResolveChild: the child is registered in the parent's list before
\* it is resolved, so a failed resolution leaves it there.
CreateAndResolveChild_RegisterFirst(p, Class, providers) ==
  /\ nextId <= MaxInjectors
  /\ p \in built \ destroyed
  /\ LET r == construct(p, Class, providers)
     IN /\ provs' = r.provs
        /\ built' = IF r.err = NoErr THEN built \cup {nextId} ELSE built
        /\ last' = LastOp("createAndResolveChild", nextId, p, Class, "", r.err = NoErr,
                          r.err, Undefined, r.log)
  /\ children' = [children EXCEPT ![p] = setChild(@, nextId)]
  /\ parent' = [parent EXCEPT ![nextId] = p]
  /\ nextId' = nextId + 1
  /\ UNCHANGED <<destroyed, reqVars>>

\* static Injector.createAndResolveChild(parent, Class, providers)
CreateAndResolveChild(p, Class, providers) ==
  /\ nextId <= MaxInjectors
  /\ p \in built \ destroyed
  /\ LET r == construct(p, Class, providers)
     IN /\ provs' = r.provs
        /\ children' = IF r.err = NoErr
                       THEN [children EXCEPT ![p] = setChild(@, nextId)]
                       ELSE children
        /\ built' = IF r.err = NoErr THEN built \cup {nextId} ELSE built
        /\ last' = LastOp("createAndResolveChild", nextId, p, Class, "", r.err = NoErr,
                          r.err, Undefined, r.log)
  /\ parent' = [parent EXCEPT ![nextId] = p]
  /\ nextId' = nextId + 1
  /\ UNCHANGED <<destroyed, reqVars>>

\* injector.destroy()
Destroy(c) ==
  /\ c \in Allocated
  /\ LET h == destroy(Heap, c)
     IN /\ parent' = h.parent
        /\ children' = h.children
        /\ provs' = h.provs
        /\ destroyed' = h.destroyed
  /\ last' = LastOp("destroy", c, parent[c], "", "", TRUE, NoErr, Undefined, <<>>)
  /\ UNCHANGED <<nextId, built, reqVars>>

\* injector.get(key)
Get(c, key) ==
  /\ c \in built \ destroyed
  /\ LET r == get(provs, parent, c, key, "")
     IN last' = LastOp("get", c, parent[c], "", key, r.ok, r.err, r.value, <<>>)
  /\ UNCHANGED <<nextId, parent, children, provs, destroyed, built, reqVars>>

\* Mutant of Set: a child container binds in its parent's map.
Set_OnParent(c, key, v) ==
  /\ c \in built \ destroyed
  /\ provs' = set(provs, IF parent[c] # NoParent THEN parent[c] ELSE c, key, Val(v))
  /\ last' = LastOp("set", c, parent[c], "", key, TRUE, NoErr, Val(v), <<>>)
  /\ UNCHANGED <<nextId, parent, children, destroyed, built, reqVars>>

\* injector.set(key, value)
Set(c, key, v) ==
  /\ c \in built \ destroyed
  /\ provs' = set(provs, c, key, Val(v))
  /\ last' = LastOp("set", c, parent[c], "", key, TRUE, NoErr, Val(v), <<>>)
  /\ UNCHANGED <<nextId, parent, children, destroyed, built, reqVars>>

NextInj ==
  \/ \E C \in Targets, ps \in ProviderLists : CreateAndResolve(C, ps)
  \/ \E p \in Ids, C \in Targets, ps \in ProviderLists : CreateAndResolveChild(p, C, ps)
  \/ \E c \in Ids : Destroy(c)
  \/ \E c \in Ids, k \in GetKeys : Get(c, k)
  \/ \E c \in Ids, k \in SetKeys, v \in SetValues : Set(c, k, v)

\* ------------------------------------------------------------------------
\* Request: thrown values, HttpError, the response sink
\* ------------------------------------------------------------------------

\* A thrown value: an HttpError with its code, a plain Error, a string, null, undefined.
Thrown(kind, code) == [kind |-> kind, code |-> code]

NoError == Thrown("none", 0)

TypeError == Thrown("Error", 0)

\* What the Router stub rejects with.
RouterRejections ==
  {Thrown("HttpError", 404), Thrown("Error", 0), Thrown("string", 0),
   Thrown("null", 0), Thrown("undefined", 0)}

\* What a call of the response sink throws, when it throws.
SinkThrows == {Thrown("Error", 0), Thrown("HttpError", 503)}

\* The methods a ResolvedRoute carries.
Methods == {"GET", "DELETE", "POST", "PATCH", "PUT"}

\* [Methods.POST, Methods.PATCH, Methods.PUT]
BodyMethods == {"POST", "PATCH", "PUT"}

\* The chunks the transport sends.
Chunks == {"a", "b"}

\* The "statusCode" value the child injector is given.
DefaultStatus == 200

\* new HttpError(500, ...)
InternalError == 500

\* error instanceof HttpError
isHttpError(e) == e.kind = "HttpError"

\* e.message / e.stack: reading a property of null or undefined throws a TypeError
canReadProperty(e) == e.kind \notin {"null", "undefined"}

\* A value handed to render: its typeof / class and its content.
Payload(t, v) == [t |-> t, v |-> v]

NoPayload == Payload("none", "")

\* The values callers hand to render.
Payloads ==
  {Payload("string", "hello"), Payload("Buffer", "raw"), Payload("number", "42"),
   Payload("object", "{}"), Payload("undefined", "")}

\* isString(response)
isString(p) == p.t = "string"

\* response instanceof Buffer
isBuffer(p) == p.t = "Buffer"

\* resolvedRoute.route + resolvedRoute.method
RouteText(m) == Payload("string", m)

\* clean(error.toString())
ErrorText(e) == Payload("string", e.kind)

\* One call of the response sink.
SinkCall(call, code, p) == [call |-> call, code |-> code, payload |-> p]

\* Mutant of render: no type guard, every payload is written.
renderUnguarded(p, code, failAt, thrown) ==
  LET calls == << SinkCall("writeHead", code, NoPayload),
                  SinkCall("write", 0, p),
                  SinkCall("end", 0, NoPayload) >>
  IN [written |-> IF failAt = 0 THEN calls ELSE SubSeq(calls, 1, failAt - 1),
      thrown |-> IF failAt = 0 THEN NoError ELSE thrown,
      returned |-> IF failAt = 0 THEN p ELSE NoPayload,
      carried |-> NoPayload,
      logged |-> FALSE]

\* Request.render(response). For a string or a Buffer the sink's three calls, of which
\* call number failAt throws (0: none does); for anything else the error log and the
\* HttpError(500) carrying the value. The calls the sink accepted, what was thrown,
\* what was returned.
render(p, code, failAt, thrown) ==
  IF isString(p) \/ isBuffer(p)
  THEN LET calls == << SinkCall("writeHead", code, NoPayload),
                       SinkCall("write", 0, p),
                       SinkCall("end", 0, NoPayload) >>
       IN [written |-> IF failAt = 0 THEN calls ELSE SubSeq(calls, 1, failAt - 1),
           thrown |-> IF failAt = 0 THEN NoError ELSE thrown,
           returned |-> IF failAt = 0 THEN p ELSE NoPayload,
           carried |-> NoPayload,
           logged |-> FALSE]
  ELSE [written |-> <<>>,
        thrown |-> Thrown("HttpError", InternalError),
        returned |-> NoPayload,
        carried |-> p,
        logged |-> TRUE]

\* Request.destroy()
RequestDestroy(h) ==
  [h EXCEPT !.destroys = @ + 1,
            !.emits = @ + 1,
            !.notified = IF channel THEN @ + 1 ELSE @]

\* What the orchestrator was when the close signal destroyed it.
Snapshot == [response |-> response, data |-> data, statusCode |-> statusCode]

NoHistory ==
  [destroys |-> 0, emits |-> 0, notified |-> 0, renders |-> 0, logs |-> <<>>,
   rejection |-> NoError, sinkFaults |-> 0, stages |-> <<>>, renderedBy |-> <<>>,
   atRender |-> [data |-> <<>>, sent |-> <<>>, ended |-> FALSE],
   closedAt |-> "", frozen |-> [response |-> <<>>, data |-> <<>>, statusCode |-> 0]]

InitReq ==
  /\ isForwarded \in BOOLEAN
  /\ pc = "created"
  /\ route = ""
  /\ error = NoError
  /\ finishL = FALSE
  /\ closeL = FALSE
  /\ dataL = FALSE
  /\ endL = FALSE
  /\ statusCode = DefaultStatus
  /\ data = <<>>
  /\ response = <<>>
  /\ channel = TRUE
  /\ env = [sent |-> <<>>, ended |-> FALSE, finished |-> FALSE, closed |-> FALSE]
  /\ hist = NoHistory

\* The orchestrator before process() is called, for the Injector specification.
ReqIdle ==
  /\ isForwarded = FALSE
  /\ pc = "created"
  /\ route = ""
  /\ error = NoError
  /\ finishL = FALSE
  /\ closeL = FALSE
  /\ dataL = FALSE
  /\ endL = FALSE
  /\ statusCode = DefaultStatus
  /\ data = <<>>
  /\ response = <<>>
  /\ channel = TRUE
  /\ env = [sent |-> <<>>, ended |-> FALSE, finished |-> FALSE, closed |-> FALSE]
  /\ hist = NoHistory

\* HttpError.getCode()
getCode(e) == e.code

\* The response sink accepted an end() call.
Ended == \E i \in 1..Len(response) : response[i].call = "end"

\* History of one stage of the chain: its name, a render call, an error log.
Stage(name, rendered, faulted, logged) ==
  [hist EXCEPT !.stages = Append(@, name),
               !.renders = IF rendered THEN @ + 1 ELSE @,
               !.renderedBy = IF rendered THEN Append(@, name) ELSE @,
               !.sinkFaults = IF faulted THEN @ + 1 ELSE @,
               !.logs = IF logged THEN Append(@, name) ELSE @]

\* ------------------------------------------------------------------------
\* Request.process(): one action per callback of the promise chain
\* ------------------------------------------------------------------------

\* Mutant of Process: the finish / close listeners are attached whether or not the
\* request is forwarded.
Process_AlwaysWire ==
  /\ pc = "created"
  /\ pc' = "parseRequest"
  /\ finishL' = TRUE
  /\ closeL' = TRUE
  /\ UNCHANGED <<isForwarded, route, error, dataL, endL, statusCode, data, response,
                 channel, env, hist, injVars>>

\* lines 208-217: attach the finish / close listeners, call router.parseRequest
Process ==
  /\ pc = "created"
  /\ pc' = "parseRequest"
  /\ finishL' = IF ~isForwarded THEN TRUE ELSE finishL
  /\ closeL' = IF ~isForwarded THEN TRUE ELSE closeL
  /\ UNCHANGED <<isForwarded, route, error, dataL, endL, statusCode, data, response,
                 channel, env, hist, injVars>>

\* Mutant of ParseRequestResolved: the data listener is attached but the chain goes on
\* to render without waiting for "end".
ParseRequestResolved_NoWait(m) ==
  /\ pc = "parseRequest"
  /\ route' = m
  /\ IF m \in BodyMethods /\ ~isForwarded
     THEN /\ dataL' = TRUE
          /\ endL' = TRUE
          /\ pc' = "render"
     ELSE /\ UNCHANGED <<dataL, endL>>
          /\ pc' = "render"
  /\ hist' = Stage("route", FALSE, FALSE, FALSE)
  /\ UNCHANGED <<isForwarded, error, finishL, closeL, statusCode, data, response,
                 channel, env, injVars>>

\* lines 218-233: the Router resolved with a route of method m
ParseRequestResolved(m) ==
  /\ pc = "parseRequest"
  /\ route' = m
  /\ IF m \in BodyMethods /\ ~isForwarded
     THEN /\ dataL' = TRUE
          /\ endL' = TRUE
          /\ pc' = "bodyWait"
     ELSE /\ UNCHANGED <<dataL, endL>>
          /\ pc' = "render"
  /\ hist' = Stage("route", FALSE, FALSE, FALSE)
  /\ UNCHANGED <<isForwarded, error, finishL, closeL, statusCode, data, response,
                 channel, env, injVars>>

\* the Router rejected with e: both then callbacks are skipped
ParseRequestRejected(e) ==
  /\ pc = "parseRequest"
  /\ pc' = "catch1"
  /\ error' = e
  /\ hist' = [hist EXCEPT !.rejection = e]
  /\ UNCHANGED <<isForwarded, route, finishL, closeL, dataL, endL, statusCode, data,
                 response, channel, env, injVars>>

\* line 229: the request stream emits "data"
Data(item) ==
  /\ dataL
  /\ ~env.ended
  /\ ~env.closed
  /\ Len(env.sent) < MaxChunks
  /\ data' = Append(data, item)
  /\ env' = [env EXCEPT !.sent = Append(@, item)]
  /\ UNCHANGED <<isForwarded, pc, route, error, finishL, closeL, dataL, endL, statusCode,
                 response, channel, hist, injVars>>

\* line 230: the request stream emits "end", which resolves the body promise
End ==
  /\ endL
  /\ ~env.ended
  /\ ~env.closed
  /\ env' = [env EXCEPT !.ended = TRUE]
  /\ pc' = IF pc = "bodyWait" THEN "render" ELSE pc
  /\ UNCHANGED <<isForwarded, route, error, finishL, closeL, dataL, endL, statusCode,
                 data, response, channel, hist, injVars>>

\* lines 234-236: render(resolvedRoute.route + resolvedRoute.method)
Render(failAt, thrown) ==
  /\ pc = "render"
  /\ LET r == render(RouteText(route), statusCode, failAt, thrown)
     IN /\ response' = response \o r.written
        /\ error' = r.thrown
        /\ pc' = IF r.thrown = NoError THEN "resolved" ELSE "catch1"
  /\ hist' = [Stage("render", TRUE, failAt # 0, FALSE)
                EXCEPT !.atRender = [data |-> data, sent |-> env.sent, ended |-> env.ended]]
  /\ UNCHANGED <<isForwarded, route, finishL, closeL, dataL, endL, statusCode, data,
                 channel, env, injVars>>

\* lines 237-256: the first catch
Catch1(failAt, thrown) ==
  /\ pc = "catch1"
  /\ IF ~isHttpError(error) /\ ~canReadProperty(error)
     THEN \* line 241: _error.message throws
          /\ pc' = "catch2"
          /\ error' = TypeError
          /\ hist' = Stage("catch1", FALSE, FALSE, FALSE)
          /\ UNCHANGED <<statusCode, response>>
     ELSE LET e == IF isHttpError(error) THEN error ELSE Thrown("HttpError", InternalError)
              r == render(ErrorText(e), getCode(e), failAt, thrown)
          IN /\ statusCode' = getCode(e)
             /\ response' = response \o r.written
             /\ error' = r.thrown
             /\ pc' = IF r.thrown = NoError THEN "resolved" ELSE "catch2"
             /\ hist' = Stage("catch1", TRUE, failAt # 0, TRUE)
  /\ UNCHANGED <<isForwarded, route, finishL, closeL, dataL, endL, data, channel, env,
                 injVars>>

\* Mutant of Catch2: the second catch sets the status code and returns without
\* rendering again.
Catch2_NoRender(failAt, thrown) ==
  /\ pc = "catch2"
  /\ pc' = "resolved"
  /\ error' = NoError
  /\ statusCode' = IF isHttpError(error) THEN getCode(error) ELSE statusCode
  /\ hist' = Stage("catch2", FALSE, FALSE, FALSE)
  /\ UNCHANGED <<isForwarded, route, finishL, closeL, dataL, endL, data, response,
                 channel, env, injVars>>

\* lines 257-262: the second catch
Catch2(failAt, thrown) ==
  /\ pc = "catch2"
  /\ IF ~isHttpError(error)
     THEN \* line 259: error.getCode is not a function
          /\ pc' = "catch3"
          /\ error' = TypeError
          /\ hist' = Stage("catch2", FALSE, FALSE, FALSE)
          /\ UNCHANGED <<statusCode, response>>
     ELSE LET r == render(ErrorText(error), getCode(error), failAt, thrown)
          IN /\ statusCode' = getCode(error)
             /\ response' = response \o r.written
             /\ error' = r.thrown
             /\ pc' = IF r.thrown = NoError THEN "resolved" ELSE "catch3"
             /\ hist' = Stage("catch2", TRUE, failAt # 0, FALSE)
  /\ UNCHANGED <<isForwarded, route, finishL, closeL, dataL, endL, data, channel, env,
                 injVars>>

\* lines 263-269: the third catch logs error.message and returns
Catch3 ==
  /\ pc = "catch3"
  /\ pc' = IF canReadProperty(error) THEN "resolved" ELSE "rejected"
  /\ error' = IF canReadProperty(error) THEN NoError ELSE TypeError
  /\ hist' = Stage("catch3", FALSE, FALSE, canReadProperty(error))
  /\ UNCHANGED <<isForwarded, route, finishL, closeL, dataL, endL, statusCode, data,
                 response, channel, env, injVars>>

\* line 211: the response emits "finish" (after end()); a once-listener runs destroy()
Finish ==
  /\ Ended
  /\ ~env.finished
  /\ env' = [env EXCEPT !.finished = TRUE]
  /\ finishL' = FALSE
  /\ hist' = IF finishL THEN RequestDestroy(hist) ELSE hist
  /\ channel' = IF finishL THEN FALSE ELSE channel
  /\ UNCHANGED <<isForwarded, pc, route, error, closeL, dataL, endL, statusCode, data,
                 response, injVars>>

\* line 213: the response emits "close"; a once-listener runs destroy()
Close ==
  /\ pc # "created"
  /\ ~env.closed
  /\ env' = [env EXCEPT !.closed = TRUE]
  /\ closeL' = FALSE
  /\ hist' = IF closeL
             THEN [RequestDestroy(hist) EXCEPT !.closedAt = pc, !.frozen = Snapshot]
             ELSE hist
  /\ channel' = IF closeL THEN FALSE ELSE channel
  /\ UNCHANGED <<isForwarded, pc, route, error, finishL, dataL, endL, statusCode, data,
                 response, injVars>>

RouterSettles ==
  \/ \E m \in Methods : ParseRequestResolved(m)
  \/ \E e \in RouterRejections : ParseRequestRejected(e)

NextReq ==
  \/ Process
  \/ \E m \in Methods : ParseRequestResolved(m)
  \/ \E e \in RouterRejections : ParseRequestRejected(e)
  \/ \E item \in Chunks : Data(item)
  \/ End
  \/ \E failAt \in 0..3, thrown \in SinkThrows : Render(failAt, thrown)
  \/ \E failAt \in 0..3, thrown \in SinkThrows : Catch1(failAt, thrown)
  \/ \E failAt \in 0..3, thrown \in SinkThrows : Catch2(failAt, thrown)
  \/ Catch3
  \/ Finish
  \/ Close

Init == InitInj /\ ReqIdle

Next == NextInj

Spec == Init /\ [][Next]_vars

\* One orchestrator; no Injector object is part of this specification.
NoInj ==
  /\ nextId = 1
  /\ parent = <<>>
  /\ children = <<>>
  /\ provs = <<>>
  /\ destroyed = {}
  /\ built = {}
  /\ last = <<>>

InitR == NoInj /\ InitReq

SpecReq == InitR /\ [][NextReq]_vars

\* The event loop runs every queued callback; the Router stub settles; the request
\* stream ends unless the connection closed first; an ended response finishes.
SpecReqFair ==
  /\ SpecReq
  /\ WF_vars(Process)
  /\ WF_vars(RouterSettles)
  /\ WF_vars(End)
  /\ WF_vars(\E failAt \in 0..3, thrown \in SinkThrows : Render(failAt, thrown))
  /\ WF_vars(\E failAt \in 0..3, thrown \in SinkThrows : Catch1(failAt, thrown))
  /\ WF_vars(\E failAt \in 0..3, thrown \in SinkThrows : Catch2(failAt, thrown))
  /\ WF_vars(Catch3)
  /\ WF_vars(Finish)

\* ------------------------------------------------------------------------
\* Request.render() called directly
\* ------------------------------------------------------------------------

\* The status codes a caller assigns to the mutable statusCode.
StatusCodes == {404, 500}

\* The last direct call, its result and what the orchestrator was before it.
RenderOp(op, p, failAt, result) ==
  [op |-> op, p |-> p, failAt |-> failAt, result |-> result,
   pre |-> [response |-> response, statusCode |-> statusCode, logs |-> hist.logs]]

NoResult ==
  [written |-> <<>>, thrown |-> NoError, returned |-> NoPayload, carried |-> NoPayload,
   logged |-> FALSE]

InitRender ==
  /\ nextId = 1
  /\ parent = <<>>
  /\ children = <<>>
  /\ provs = <<>>
  /\ destroyed = {}
  /\ built = {}
  /\ last = [op |-> "init", p |-> NoPayload, failAt |-> 0, result |-> NoResult,
             pre |-> [response |-> <<>>, statusCode |-> DefaultStatus, logs |-> <<>>]]
  /\ InitReq

\* this.statusCode = code (the injected property is mutable)
SetStatusCode(code) ==
  /\ statusCode # code
  /\ statusCode' = code
  /\ last' = RenderOp("statusCode", NoPayload, 0, NoResult)
  /\ UNCHANGED <<nextId, parent, children, provs, destroyed, built>>
  /\ UNCHANGED <<isForwarded, pc, route, error, finishL, closeL, dataL, endL, data,
                 response, channel, env, hist>>

\* request.render(p)
RenderCall(p, failAt, thrown) ==
  /\ hist.renders < MaxRenders
  /\ LET r == render(p, statusCode, failAt, thrown)
         f == IF isString(p) \/ isBuffer(p) THEN failAt ELSE 0
     IN /\ response' = response \o r.written
        /\ hist' = Stage("call", TRUE, f # 0, r.logged)
        /\ last' = RenderOp("render", p, f, r)
  /\ UNCHANGED <<nextId, parent, children, provs, destroyed, built>>
  /\ UNCHANGED <<isForwarded, pc, route, error, finishL, closeL, dataL, endL, statusCode,
                 data, channel, env>>

NextRender ==
  \/ \E code \in StatusCodes : SetStatusCode(code)
  \/ \E p \in Payloads, failAt \in 0..3, thrown \in SinkThrows : RenderCall(p, failAt, thrown)

SpecRender == InitRender /\ [][NextRender]_vars

\* ========================================================================
\* Claims about the Injector                                          (Spec)
\* ========================================================================

Creation == {"createAndResolve", "createAndResolveChild"}

\* The container the parent references of c end in.
RECURSIVE Top(_, _)
Top(par, c) == IF par[c] = NoParent THEN c ELSE Top(par, par[c])

\* The containers above c.
RECURSIVE Ancestors(_, _)
Ancestors(par, c) == IF par[c] = NoParent THEN {} ELSE {par[c]} \cup Ancestors(par, par[c])

\* destroy() has left c with no bindings, no parent and no children.
IsDestroyed(c) == provs[c] = EmptyMap /\ parent[c] = NoParent /\ children[c] = <<>>

\* C1: after destroy() of a live container, every container that was in its child list
\* is destroyed: empty bindings, no parent, no children.
C1_RecursiveTeardown ==
  (last.op = "destroy" /\ last.c \in built /\ last.c \notin last.pre.destroyed)
  => \A i \in 1..Len(last.pre.children[last.c]) : IsDestroyed(last.pre.children[last.c][i])

\* C7: get returns the local binding of a key the container binds itself, whatever its
\* ancestors bind; and destroy() or set() on a container changes no binding of any of
\* its ancestors, so the parent's get returns what it returned before.
C7_Shadowing ==
  /\ (last.op = "get" /\ has(provs, last.c, last.key))
     => (last.ok /\ last.value = provs[last.c][last.key])
  /\ (last.op \in {"destroy", "set"})
     => /\ \A a \in Ancestors(last.pre.parent, last.c) : provs[a] = last.pre.provs[a]
        /\ last.p # NoParent
           => \A K \in Keys : get(provs, parent, last.p, K, "").value
                              = get(last.pre.provs, last.pre.parent, last.p, K, "").value

\* C7 witness: a child that bound a key to another value than its parent was destroyed,
\* and the parent's get still returns the parent's value.
C7_Witness ==
  /\ last.op = "destroy"
  /\ last.p # NoParent
  /\ \E K \in Tokens :
       /\ has(last.pre.provs, last.c, K)
       /\ has(last.pre.provs, last.p, K)
       /\ last.pre.provs[last.c][K] # last.pre.provs[last.p][K]
       /\ get(provs, parent, last.p, K, "").value = last.pre.provs[last.p][K]

\* Every constructor- and property-injected key of cls was resolved in this log.
AllKeysResolved(cls, log) ==
  /\ \A k \in 1..Len(getConstructorInjectKeys(cls)) :
       \E j \in 1..Len(log) : /\ log[j].ev = "arg"
                              /\ log[j].cls = cls
                              /\ log[j].key = getConstructorInjectKeys(cls)[k]
  /\ \A k \in 1..Len(getConstructorPrototypeKeys(cls)) :
       \E j \in 1..Len(log) : /\ log[j].ev = "prop"
                              /\ log[j].cls = cls
                              /\ log[j].key = getConstructorPrototypeKeys(cls)[k].value

\* C8: a createAndResolve / createAndResolveChild that returns has resolved every
\* injected key of the target; one that meets a key bound nowhere in the chain throws a
\* "No provider" error naming that key, leaves the target unbound and its
\* afterConstruct not run, and does not add the new container to the parent's list.
C8_FailFast ==
  last.op \in Creation
  => IF last.ok
     THEN AllKeysResolved(last.cls, last.log) /\ has(provs, last.c, last.cls)
     ELSE /\ last.err.key \in Keys
          /\ ~get(provs, parent, last.c, last.err.key, "").ok
          /\ ~has(provs, last.c, last.cls)
          /\ \A j \in 1..Len(last.log) :
                ~(last.log[j].ev \in {"hook", "bind"} /\ last.log[j].cls = last.cls)
          /\ last.op = "createAndResolveChild"
             => /\ children[last.p] = last.pre.children[last.p]
                /\ indexOf(children[last.p], last.c) = -1

\* C8 witness: a createAndResolveChild failed on a property-injected key after the
\* instance was constructed, under a parent that already has a child.
C8_Witness ==
  /\ last.op = "createAndResolveChild"
  /\ ~last.ok
  /\ last.err.key = "k2"
  /\ Len(children[last.p]) = 1
  /\ \E j \in 1..Len(last.log) : last.log[j].ev = "construct" /\ last.log[j].cls = last.cls

\* C9 (as stated): the "No provider" error of a failed lookup carries the identifier of
\* the container the lookup was made on.
C9_ErrorNamesRequester ==
  (last.op \in Creation \cup {"get"} /\ ~last.ok) => last.err.injector = last.c

\* C9 (amended): the error carries the identifier of the topmost container of the
\* parent chain, where the lookup ended; and it names the key looked up.
C9_ErrorNamesTopOfChain ==
  /\ (last.op \in Creation \cup {"get"} /\ ~last.ok)
     => last.err.injector = Top(parent, last.c)
  /\ (last.op = "get" /\ ~last.ok) => last.err.key = last.key

\* C9 witness: a get failed on a container two levels below the top of its chain.
C9_Witness ==
  /\ last.op = "get"
  /\ ~last.ok
  /\ parent[last.c] # NoParent
  /\ parent[parent[last.c]] # NoParent
  /\ last.err.injector = parent[parent[last.c]]

\* The positions of the events of kind ev about instance inst.
EventsOf(log, ev, inst) == {j \in 1..Len(log) : log[j].ev = ev /\ log[j].inst = inst}

\* C10: an instance of a class with its own afterConstruct that createAndResolve has
\* bound gets the hook exactly once, after its constructor arguments were resolved, all
\* its properties defined and the instance bound; any other instance (inherited hook,
\* or resolution failed before the bind) never gets it.
C10_SingleHook ==
  last.op \in Creation
  => \A i \in 1..Len(last.log) :
       last.log[i].ev = "construct"
       => LET inst == last.log[i].inst
              cls == last.log[i].cls
              hooks == EventsOf(last.log, "hook", inst)
              binds == EventsOf(last.log, "bind", inst)
              props == EventsOf(last.log, "prop", inst)
          IN IF hasOwnAfterConstruct(cls) /\ binds # {}
             THEN /\ Cardinality(hooks) = 1
                  /\ Cardinality(binds) = 1
                  /\ Cardinality(props) = Len(getConstructorPrototypeKeys(cls))
                  /\ AllKeysResolved(cls, last.log)
                  /\ \A h \in hooks :
                       /\ i < h
                       /\ \A b \in binds : b < h
                       /\ \A q \in props : q < h
                       /\ \A k \in 1..Len(getConstructorInjectKeys(cls)) :
                            \E j \in 1..(i - 1) : /\ last.log[j].ev = "arg"
                                                  /\ last.log[j].cls = cls
                                                  /\ last.log[j].key = getConstructorInjectKeys(cls)[k]
             ELSE hooks = {}

\* C10 witness: a resolution that ran the hook of Svc and then of Ctl.
C10_Witness ==
  /\ last.op \in Creation
  /\ last.ok
  /\ \E i, j \in 1..Len(last.log) :
       /\ i < j
       /\ last.log[i].ev = "hook" /\ last.log[i].cls = "Svc"
       /\ last.log[j].ev = "hook" /\ last.log[j].cls = "Ctl"

\* C11: every instance a container builds that injects the Injector key receives that
\* container itself, never an ancestor's; and after createAndResolve /
\* createAndResolveChild returned container C, C.get(Injector) is C.
C11_SelfRegistration ==
  (last.op \in Creation /\ last.ok)
  => /\ \A j \in 1..Len(last.log) :
          (last.log[j].ev \in {"arg", "prop"} /\ last.log[j].key = InjectorKey)
          => last.log[j].val = InjRef(last.c)
     /\ get(provs, parent, last.c, InjectorKey, "").value = InjRef(last.c)

\* C12: destroy() leaves the container with no children, no parent and no bindings; a
\* destroy() on a container already destroyed changes nothing: not the container, not
\* its former parent, not any other container.
C12_IdempotentDestroy ==
  last.op = "destroy"
  => /\ IsDestroyed(last.c)
     /\ last.c \in last.pre.destroyed
        => /\ parent = last.pre.parent
           /\ children = last.pre.children
           /\ provs = last.pre.provs

\* C12 witness: a second destroy() of a container that had been built, while another
\* container still has a child attached.
C12_Witness ==
  /\ last.op = "destroy"
  /\ last.c \in built
  /\ last.c \in last.pre.destroyed
  /\ \E p \in Allocated : p \notin destroyed /\ children[p] # <<>>

\* The live children of p other than c, in the state h.
Siblings(h, p, c) == {o \in Allocated \ {c} : h.parent[o] = p /\ o \in built \ h.destroyed}

\* C16: a set, a resolution or a destroy on a child container changes no result of get
\* or has on any other child of the same parent, and no binding of that parent.
C16_RequestIsolation ==
  (last.op \in Creation \cup {"set", "destroy"} /\ last.p # NoParent)
  => /\ provs[last.p] = last.pre.provs[last.p]
     /\ \A o \in Siblings(last.pre, last.p, last.c) : \A K \in Keys :
          /\ get(provs, parent, o, K, "") = get(last.pre.provs, last.pre.parent, o, K, "")
          /\ has(provs, o, K) = has(last.pre.provs, o, K)

\* C16 witness: a set on one child bound a key to a value its sibling resolves
\* differently, through the parent.
C16_Witness ==
  /\ last.op = "set"
  /\ last.p # NoParent
  /\ \E o \in Siblings(last.pre, last.p, last.c) :
       /\ ~has(provs, o, last.key)
       /\ get(provs, parent, o, last.key, "").ok
       /\ get(provs, parent, o, last.key, "").value # provs[last.c][last.key]

\* The number of occurrences of c in the list arr.
Count(arr, c) == Cardinality({i \in 1..Len(arr) : arr[i] = c})

\* C19: for every container c that a creation returned and every container p, c's
\* parent reference is p exactly when c occurs in p's child list, where it occurs once;
\* and no parent reference points to a destroyed container.
C19_TreeConsistency ==
  \A c \in built :
    /\ \A p \in Allocated :
         /\ Count(children[p], c) <= 1
         /\ (parent[c] = p) <=> (Count(children[p], c) = 1)
    /\ parent[c] \notin destroyed

\* C20: c.destroy() on a container with a parent reference removes at most c from the
\* parent's child list: every other child stays in the list, in order, and keeps its
\* bindings and its parent reference.
C20_DestroyFrame ==
  (last.op = "destroy" /\ last.p # NoParent)
  => /\ children[last.p] = SelectSeq(last.pre.children[last.p], LAMBDA o : o # last.c)
     /\ \A i \in 1..Len(last.pre.children[last.p]) :
          LET o == last.pre.children[last.p][i]
          IN o # last.c => (provs[o] = last.pre.provs[o] /\ parent[o] = last.p)

\* ========================================================================
\* Claims about Request.process()                       (SpecReq, SpecReqFair)
\* ========================================================================

\* The promise returned by process() has settled.
Settled == pc \in {"resolved", "rejected"}

\* One complete response with status code: writeHead(code), write, end and nothing else.
OneResponse(code) ==
  /\ Len(response) = 3
  /\ response[1].call = "writeHead" /\ response[1].code = code
  /\ response[2].call = "write"
  /\ response[3].call = "end"

\* C2: when the Router of a non-forwarded orchestrator rejects with a value that is
\* not an HttpError (an Error, a string, null, undefined) and the response sink works,
\* process() resolves and exactly one response is written, with status 500.
C2_RouterFailureRenders500 ==
  (/\ ~isForwarded
   /\ hist.rejection # NoError
   /\ ~isHttpError(hist.rejection)
   /\ hist.sinkFaults = 0
   /\ Settled)
  => (pc = "resolved" /\ OneResponse(InternalError))

\* C3: when the response of a non-forwarded orchestrator has emitted both "finish" and
\* "close", destroy() has run exactly once and "destroy" was emitted exactly once.
C3_SingleTeardown ==
  (~isForwarded /\ pc # "created" /\ env.finished /\ env.closed)
  => (hist.destroys = 1 /\ hist.emits = 1)

\* C4 (as stated): whenever process() of a non-forwarded orchestrator has resolved, a
\* response has been written and terminated, whatever failed on the way.
C4_ResolvedImpliesWritten ==
  (~isForwarded /\ pc = "resolved") => Ended

\* C4 (amended): whenever process() of a non-forwarded orchestrator has resolved,
\* either a response has been written and terminated or the third catch has logged
\* and discarded the failure.
C4_ResolvedImpliesWrittenOrSwallowed ==
  (~isForwarded /\ pc = "resolved")
  => (Ended \/ (\E i \in 1..Len(hist.logs) : hist.logs[i] = "catch3"))

\* C4 witness: resolved with a complete response by the third render call, after the
\* first two failed.
C4_Witness ==
  ~isForwarded /\ pc = "resolved" /\ Ended /\ hist.renders = 3 /\ hist.sinkFaults = 2

\* C5: every process() eventually settles, and as resolved: never rejected, whatever
\* the Router, the request stream and the response sink do.
C5_EventuallyResolved == <>(pc = "resolved")

\* C6: a non-forwarded orchestrator whose process() has settled has had destroy() run
\* at most once, and exactly once as soon as no "finish" is still due for the response
\* (in particular when no render call ever ended the response).
C6_DestroyExactlyOnce ==
  (~isForwarded /\ Settled)
  => (/\ hist.destroys <= 1
      /\ ((Ended => env.finished) => hist.destroys = 1))

\* C13: for a non-forwarded request whose route method is POST, PATCH or PUT, render is
\* not called before the request stream has emitted "end", and when render is called the
\* data buffer is the sequence of chunks the stream delivered, in arrival order; for any
\* other method no chunk is collected and the chain does not wait for "end".
C13_BodyAccumulation ==
  /\ (~isForwarded /\ route \in BodyMethods)
     => /\ ~env.ended => (hist.renders = 0 /\ pc = "bodyWait")
        /\ hist.renders > 0
           => /\ hist.renderedBy[1] = "render"
              /\ hist.atRender.ended
              /\ hist.atRender.data = hist.atRender.sent
              /\ data = hist.atRender.data
  /\ (~isForwarded /\ route \in Methods \ BodyMethods)
     => (data = <<>> /\ ~dataL /\ ~endL /\ pc # "bodyWait" /\ ~env.ended)

\* C13 witness: a PUT delivered "a" then "b", the stream ended, and render ran with the
\* buffer <<"a", "b">>.
C13_Witness ==
  /\ ~isForwarded
  /\ route = "PUT"
  /\ hist.renders > 0
  /\ hist.atRender.data = <<"a", "b">>
  /\ Ended

\* C14: render(p) with p a string or a Buffer and a working sink appends writeHead with
\* the current status code, write(p) and end, in that order, and returns p; render(p)
\* with any other p writes nothing, logs an error and throws HttpError(500) carrying p.
C14_RenderTypeGuard ==
  last.op = "render"
  => IF isString(last.p) \/ isBuffer(last.p)
     THEN last.failAt = 0
          => /\ response = last.pre.response
                            \o << SinkCall("writeHead", last.pre.statusCode, NoPayload),
                                  SinkCall("write", 0, last.p),
                                  SinkCall("end", 0, NoPayload) >>
             /\ last.result.returned = last.p
             /\ last.result.thrown = NoError
             /\ hist.logs = last.pre.logs
     ELSE /\ response = last.pre.response
          /\ hist.logs = Append(last.pre.logs, "call")
          /\ last.result.thrown = Thrown("HttpError", InternalError)
          /\ last.result.carried = last.p
          /\ last.result.returned = NoPayload

\* C14 witness: render of a number threw after render("hello") had written a response
\* with the default status 200.
C14_Witness ==
  /\ last.op = "render"
  /\ last.p = Payload("number", "42")
  /\ last.result.carried = last.p
  /\ response = << SinkCall("writeHead", DefaultStatus, NoPayload),
                   SinkCall("write", 0, Payload("string", "hello")),
                   SinkCall("end", 0, NoPayload) >>

\* C15: once the close signal has destroyed the orchestrator while the route resolution
\* or the body wait was pending, nothing is written to the response, nothing is
\* appended to the data buffer and the status code does not change.
C15_Cancellation ==
  hist.closedAt \in {"parseRequest", "bodyWait"}
  => (/\ response = hist.frozen.response
      /\ data = hist.frozen.data
      /\ statusCode = hist.frozen.statusCode)

\* The stage named name has run / has called render.
Ran(name) == \E i \in 1..Len(hist.stages) : hist.stages[i] = name

Rendered(name) == \E i \in 1..Len(hist.renderedBy) : hist.renderedBy[i] = name

\* C17: whenever the render call of the first catch has failed, whatever it threw, the
\* second catch calls render again; and render is called at most three times.
C17_LayeredRecovery ==
  /\ (Rendered("catch1") /\ Ran("catch2")) => Rendered("catch2")
  /\ hist.renders <= 3

\* C18: a forwarded request never has a finish or close listener, a data or end
\* listener, a body wait, a collected chunk or a destroy(); a request that is not
\* forwarded has both the finish and the close listener attached from the call of
\* process() on, each until its signal fires.
C18_Forwarded ==
  /\ isForwarded
     => /\ ~finishL /\ ~closeL /\ ~dataL /\ ~endL
        /\ pc # "bodyWait"
        /\ data = <<>>
        /\ hist.destroys = 0
  /\ (~isForwarded /\ pc # "created")
     => /\ finishL \/ env.finished
        /\ closeL \/ env.closed

\* C18 witness: a forwarded request with a POST route resolved after both the finish
\* and the close signal, without a destroy().
C18_Witness ==
  /\ isForwarded
  /\ route = "POST"
  /\ pc = "resolved"
  /\ env.finished
  /\ env.closed
  /\ hist.destroys = 0

====
